---- MODULE Spec2Model ----
(***************************************************************************)
(* Model of the Wikinews notification bot (wikinews_bot.py).               *)
(*                                                                         *)
(* One process run (main_async) walks MONITORED_CATEGORIES in order; for   *)
(* each category it builds a WikinewsBot (which loads the persisted        *)
(* last-checked title), fetches the category snapshot, detects the new     *)
(* articles relative to the last-checked title, renders and broadcasts     *)
(* each of them, and finally saves the last article it handled.            *)
(*                                                                         *)
(* A category member is modelled by its title: the timestamp travels with  *)
(* the title and decides nothing in the code paths modelled here.          *)
(***************************************************************************)
EXTENDS Integers, Sequences, FiniteSets, TLC

----------------------------------------------------------------------------
(* Bounds *)

\* number of distinct article titles that exist on the wiki
MaxTitles == 3
\* number of sentences of a text and of paragraphs of a page section that
\* get_article_summary is given
MaxSentences == 3
\* length of the texts given to the functions of sentence_splitter.py
MaxTextLen == 4
\* number of entries of a category's telegram_targets list
NumTargets == 2
\* length of the snapshots and number of titles of the detector-only
\* specification SpecDetect
MaxDetectLen == 4
\* length of the texts remove_templates is run on, one pass at a time
MaxTemplateLen == 6
\* length of the texts handle_links is run on, one pass at a time
MaxLinkLen == 5
\* number of nodes (<p> elements and texts outside them) of a rendered
\* first section
MaxNodes == 2

TitleNames == <<"A", "B", "C", "D", "E", "F", "G">>
Titles == {TitleNames[i] : i \in 1..MaxTitles}
DetectTitles == {TitleNames[i] : i \in 1..MaxDetectLen}

\* Python's None (a state file without a "title" key loads as None)
None == "None"

\* contents of a state file: no file, a file that json.load rejects (empty
\* or truncated included), a JSON value that is not an object, a JSON object
\* without a title, or a record holding a title
Absent == "absent"
Corrupt == "corrupt"
WrongShape == "wrongshape"
NoTitle == "notitle"

----------------------------------------------------------------------------
(* config.py *)

MONITORED_CATEGORIES ==
    << [category_name |-> "Published",  message_type |-> "published",
        state_file |-> "published_state.json",
        initial_article |-> TitleNames[1]],
       [category_name |-> "Developing", message_type |-> "developing",
        state_file |-> "developing_state.json",
        initial_article |-> TitleNames[2]],
       [category_name |-> "Review",     message_type |-> "review",
        state_file |-> "review_state.json",
        initial_article |-> TitleNames[3]] >>

Cats == DOMAIN MONITORED_CATEGORIES

\* the state files that the configuration names
STATE_FILES == {MONITORED_CATEGORIES[c].state_file : c \in Cats}

\* variant: every category's state is kept in the first category's file
shared_state_file_path(c) == MONITORED_CATEGORIES[1].state_file

\* bot_instance.state_file_path of the c-th category: _get_state_file_path
\* joins one directory, the same for all, and config['state_file']
state_file_path(c) == MONITORED_CATEGORIES[c].state_file

\* the telegram_targets list of a category, by index
telegram_targets == 1..NumTargets

----------------------------------------------------------------------------
(* Sequences helpers *)

\* s[::-1]
Reverse(s) == [i \in 1..Len(s) |-> s[Len(s) + 1 - i]]

\* s[:n]
Prefix(s, n) == [i \in 1..n |-> s[i]]

\* all sequences over S of length at most n
SeqsUpTo(S, n) == UNION {[1..k -> S] : k \in 0..n}

IsInjective(s) == \A i, j \in DOMAIN s : s[i] = s[j] => i = j

\* the members a categorymembers query can list: most recent first, each
\* page at most once
Snapshots == {s \in SeqsUpTo(Titles, MaxTitles) : IsInjective(s)}

\* how requests.get(...) / raise_for_status() / json() can end for the
\* categorymembers query: the members, or a RequestException
Responses ==
    {[exception |-> TRUE, members |-> <<>>]} \cup
    {[exception |-> FALSE, members |-> s] : s \in Snapshots}

----------------------------------------------------------------------------
(* Strings: a Python str is the sequence of its characters *)

\* str.isspace, for the characters of the model
IsSpace(c) == c \in {" ", "\t", "\n", "\r", "\f"}

RECURSIVE LStrip(_)
\* s.lstrip()
LStrip(s) == IF s # <<>> /\ IsSpace(Head(s)) THEN LStrip(Tail(s)) ELSE s

\* s.strip()
Strip(s) == Reverse(LStrip(Reverse(LStrip(s))))

RECURSIVE Join(_, _)
\* sep.join(strings)
Join(sep, strings) ==
    IF strings = <<>> THEN <<>>
    ELSE IF Len(strings) = 1 THEN strings[1]
    ELSE strings[1] \o sep \o Join(sep, Tail(strings))

\* s[:n] of a sequence that may be shorter than n
Slice(s, n) == IF Len(s) <= n THEN s ELSE Prefix(s, n)

\* a string of n visible characters, and the same between two blanks
Filler(n) == [i \in 1..n |-> "x"]
Padded(n) == <<" ">> \o Filler(n) \o <<" ">>

----------------------------------------------------------------------------
(* WikinewsBot *)

\* variant: the RequestException is not caught and leaves the caller
make_api_request_uncaught(response) ==
    [raised |-> response.exception, none |-> FALSE,
     members |-> response.members]

\* _make_api_request: the decoded data, or None after logging a
\* RequestException (none = TRUE); it never raises
make_api_request(response) ==
    [raised |-> FALSE, none |-> response.exception,
     members |-> response.members]

\* get_category_members:
\* data.get('query', {}).get('categorymembers', []) if data else []
get_category_members(data) == IF data.none THEN <<>> ELSE data.members

\* variant: a missing or unreadable state file loads as None instead of the
\* configured initial article
load_without_initial_article(f, category_config) ==
    IF f \in {Absent, Corrupt, NoTitle} THEN None ELSE f

\* load_last_checked_article_title
load_last_checked_article_title(f, category_config) ==
    CASE f = Absent     -> category_config.initial_article
      [] f = Corrupt    -> category_config.initial_article
      \* data.get raises AttributeError, caught by except Exception
      [] f = WrongShape -> category_config.initial_article
      \* data.get('title') is None, returned as it is
      [] f = NoTitle    -> None
      [] OTHER          -> f

\* next(i for i, a in enumerate(all_articles) if a['title'] == last): the
\* first index (1-based) holding the title, 0 for StopIteration
FirstIndex(all_articles, title) ==
    IF \E i \in DOMAIN all_articles : all_articles[i] = title
    THEN CHOOSE i \in DOMAIN all_articles :
            /\ all_articles[i] = title
            /\ \A j \in 1..(i - 1) : all_articles[j] # title
    ELSE 0

\* variant: the slice keeps the reference article (all_articles[:last_idx+1])
check_for_new_articles_inclusive(all_articles, last_title) ==
    IF all_articles = <<>> THEN <<>>
    ELSE LET last_idx == FirstIndex(all_articles, last_title)
             new_articles == IF last_idx # 0
                             THEN Prefix(all_articles, last_idx)
                             ELSE <<all_articles[1]>>
         IN  Reverse(new_articles)

\* variant: a missing reference makes every fetched member new
check_for_new_articles_storm(all_articles, last_title) ==
    IF all_articles = <<>> THEN <<>>
    ELSE LET last_idx == FirstIndex(all_articles, last_title)
             new_articles == IF last_idx # 0
                             THEN Prefix(all_articles, last_idx - 1)
                             ELSE all_articles
         IN  Reverse(new_articles)

\* variant: the result is not reversed (newest first)
check_for_new_articles_unreversed(all_articles, last_title) ==
    IF all_articles = <<>> THEN <<>>
    ELSE LET last_idx == FirstIndex(all_articles, last_title)
         IN  IF last_idx # 0
             THEN Prefix(all_articles, last_idx - 1)
             ELSE <<all_articles[1]>>

\* check_for_new_articles, given the fetched members and the loaded title
check_for_new_articles(all_articles, last_title) ==
    IF all_articles = <<>> THEN <<>>
    ELSE LET last_idx == FirstIndex(all_articles, last_title)
             new_articles == IF last_idx # 0
                             THEN Prefix(all_articles, last_idx - 1)
                             ELSE <<all_articles[1]>>
         IN  Reverse(new_articles)

\* variant: the first failed send ends the loop over the targets
broadcast_next_until_failure(tgt, ok) ==
    IF ok /\ tgt < NumTargets THEN tgt + 1 ELSE 0

\* broadcast_message: the target the for loop visits after target tgt whose
\* send ended with outcome ok (TRUE: sent, FALSE: TelegramError, caught);
\* 0 when the loop is over
broadcast_next(tgt, ok) == IF tgt < NumTargets THEN tgt + 1 ELSE 0

\* variant: latest_article_data keeps the first article that was broadcast
keep_first_article(latest, article_data) ==
    IF latest = None THEN article_data ELSE latest

\* main_async: latest_article_data = article_data, after broadcast_message
\* returned
next_latest_article_data(latest, article_data) == article_data

----------------------------------------------------------------------------
(* State *)

VARIABLES
    file,                 \* the state files, by their path
    pc,                   \* where the process is
    cat,                  \* main_async: index of category_config
    last_checked,         \* bot_instance.last_checked_article_title
    all_articles,         \* the snapshot fetched by check_for_new_articles
    new_articles,         \* main_async: new_articles
    idx,                  \* main_async: position of article_data in new_articles
    tgt,                  \* broadcast_message: position of target in targets
    latest_article_data,  \* main_async: latest_article_data
    sent,                 \* the send_message calls of this category's cycle
    file_before,          \* the category's state file when its cycle began
    save_result,          \* how save_last_checked_article ended in this cycle
    request_failed,       \* the categorymembers request of this cycle raised
    watch,                \* one (category, title, target) whose deliveries
                          \* are counted over all runs, or NoWatch
    delivered,            \* successful send_message calls for watch, up to 2
    fetched,              \* get_article_summary: the API requests made so far
    summary,              \* get_article_summary: summary
    text,                 \* the argument of the text function under study
    clean_text,           \* the text as the function has rewritten it so far
    sentences             \* the sentences the function has produced

\* the variables of the text functions (get_article_summary and
\* sentence_splitter.py), which the category loop leaves alone
text_vars == <<fetched, summary, text, clean_text, sentences>>

vars == <<file, pc, cat, last_checked, all_articles, new_articles, idx, tgt,
          latest_article_data, sent, file_before, save_result,
          request_failed, watch, delivered, text_vars>>

NoWatch == [cat |-> 0, title |-> None, target |-> 0]

Watches == [cat : Cats, title : Titles, target : telegram_targets]

\* no text function is running
InitText ==
    /\ fetched = <<>>
    /\ summary = <<>>
    /\ text = <<>>
    /\ clean_text = <<>>
    /\ sentences = <<>>

\* first deployment: no state file exists, the process has not run
InitBot ==
    /\ file = [f \in STATE_FILES |-> Absent]
    /\ pc = "start"
    /\ cat = 1
    /\ last_checked = None
    /\ all_articles = <<>>
    /\ new_articles = <<>>
    /\ idx = 0
    /\ tgt = 0
    /\ latest_article_data = None
    /\ sent = <<>>
    /\ file_before = Absent
    /\ save_result = "none"
    /\ request_failed = FALSE
    /\ delivered = 0
    /\ InitText

Init ==
    /\ InitBot
    /\ watch = NoWatch

----------------------------------------------------------------------------
(* Actions *)

\* bot_instance and the locals of one iteration of the category loop go out
\* of scope
ForgetCycle ==
    /\ last_checked' = None
    /\ all_articles' = <<>>
    /\ new_articles' = <<>>
    /\ idx' = 0
    /\ tgt' = 0
    /\ latest_article_data' = None
    /\ sent' = <<>>
    /\ file_before' = Absent
    /\ save_result' = "none"
    /\ request_failed' = FALSE

\* the process is started (again): main_async up to the category loop
StartRun ==
    /\ pc \in {"start", "exited", "crashed"}
    /\ pc' = "category"
    /\ cat' = 1
    /\ ForgetCycle
    /\ UNCHANGED <<file, watch, delivered, text_vars>>

\* one iteration of the category loop up to the article loop: build the
\* WikinewsBot (load the state file), fetch the members, detect
CheckCategory ==
    /\ pc = "category"
    /\ \E response \in Responses :
        LET loaded == load_last_checked_article_title(
                          file[state_file_path(cat)],
                          MONITORED_CATEGORIES[cat])
            data == make_api_request(response)
            snapshot == get_category_members(data)
            found == check_for_new_articles(snapshot, loaded)
        IN  /\ last_checked' = loaded
            /\ request_failed' = response.exception
            /\ IF data.raised
               THEN \* an exception leaves main_async and the process exits
                    /\ all_articles' = <<>>
                    /\ new_articles' = <<>>
                    /\ pc' = "crashed"
                    /\ idx' = 0
               ELSE /\ all_articles' = snapshot
                    /\ new_articles' = found
                    /\ pc' = IF found = <<>> THEN "next" ELSE "item"
                    /\ idx' = IF found = <<>> THEN 0 ELSE 1
    /\ tgt' = 0
    /\ latest_article_data' = None
    /\ sent' = <<>>
    /\ file_before' = file[state_file_path(cat)]
    /\ save_result' = "none"
    /\ UNCHANGED <<file, cat, watch, delivered, text_vars>>

\* the article loop moves on after the article at idx
AfterItem == IF idx < Len(new_articles) THEN "item" ELSE "after_loop"

\* what get_article_revision_details can return: {} (no data, no page, no
\* revisions: the article is absent) or the creator, editor and created_utc
RevDetails == {"{}", "details"}

\* the body of the article loop up to broadcast_message: build details and
\* the message.  published: get_article_summary returns a summary (an empty
\* one for an absent article) or raises.  developing: rev_details = {} makes
\* rev_details['created_utc'] a KeyError.  An exception leaves main_async
\* and the process exits
ProcessItem ==
    /\ pc = "item"
    /\ LET message_type == MONITORED_CATEGORIES[cat].message_type
       IN  CASE message_type = "published" ->
                  \E rendered \in BOOLEAN :
                      /\ pc' = IF rendered THEN "send" ELSE "crashed"
                      /\ tgt' = IF rendered THEN 1 ELSE tgt
                      /\ idx' = idx
             [] message_type = "developing" ->
                  \E rev_details \in RevDetails :
                      /\ pc' = IF rev_details # "{}" THEN "send" ELSE "crashed"
                      /\ tgt' = IF rev_details # "{}" THEN 1 ELSE tgt
                      /\ idx' = idx
             [] OTHER -> \* unknown message type: continue
                  /\ pc' = AfterItem
                  /\ idx' = IF idx < Len(new_articles) THEN idx + 1 ELSE idx
                  /\ tgt' = tgt
    /\ UNCHANGED <<file, cat, last_checked, all_articles, new_articles,
                   latest_article_data, sent, file_before, save_result,
                   request_failed, watch, delivered, text_vars>>

\* one iteration of broadcast_message's loop: send to the target at tgt;
\* after the last target main_async sets latest_article_data
Send ==
    /\ pc = "send"
    /\ \E ok \in BOOLEAN :
        /\ sent' = Append(sent, [title |-> new_articles[idx], target |-> tgt,
                                 ok |-> ok])
        /\ delivered' =
              IF ok /\ delivered < 2
                    /\ watch = [cat |-> cat, title |-> new_articles[idx],
                                target |-> tgt]
              THEN delivered + 1 ELSE delivered
        /\ LET nxt == broadcast_next(tgt, ok)
           IN  IF nxt # 0
               THEN /\ tgt' = nxt
                    /\ UNCHANGED <<pc, idx, latest_article_data>>
               ELSE /\ tgt' = 0
                    /\ latest_article_data' =
                          next_latest_article_data(latest_article_data,
                                                   new_articles[idx])
                    /\ pc' = AfterItem
                    /\ idx' = IF idx < Len(new_articles) THEN idx + 1 ELSE idx
    /\ UNCHANGED <<file, cat, last_checked, all_articles, new_articles,
                   file_before, save_result, request_failed, watch,
                   text_vars>>

\* after the article loop: save_last_checked_article(latest_article_data)
\* if there is one.  The write can succeed, fail in open() (file as it
\* was) or fail after open() truncated the file; the exception is caught
Save ==
    /\ pc = "after_loop"
    /\ IF latest_article_data # None
       THEN \E outcome \in {"ok", "open_failed", "write_failed"} :
                /\ save_result' = outcome
                /\ file' = [file EXCEPT ![state_file_path(cat)] =
                              CASE outcome = "ok" -> latest_article_data
                                [] outcome = "open_failed" -> @
                                [] OTHER -> Corrupt]
       ELSE UNCHANGED <<file, save_result>>
    /\ pc' = "next"
    /\ UNCHANGED <<cat, last_checked, all_articles, new_articles, idx, tgt,
                   latest_article_data, sent, file_before, request_failed,
                   watch, delivered, text_vars>>

\* the category loop moves to the next category, or main_async returns
NextCategory ==
    /\ pc = "next"
    /\ IF cat < Len(MONITORED_CATEGORIES)
       THEN /\ cat' = cat + 1
            /\ pc' = "category"
       ELSE /\ cat' = cat
            /\ pc' = "exited"
    /\ ForgetCycle
    /\ UNCHANGED <<file, watch, delivered, text_vars>>

Next ==
    \/ StartRun
    \/ CheckCategory
    \/ ProcessItem
    \/ Send
    \/ Save
    \/ NextCategory

Spec == Init /\ [][Next]_vars

\* the same program, with the deliveries of one (category, title, target)
\* counted
InitAtMostOnce ==
    /\ InitBot
    /\ watch \in Watches

SpecAtMostOnce == InitAtMostOnce /\ [][Next]_vars

----------------------------------------------------------------------------
(* What the state says about the cycle of category cat *)

Range(s) == {s[i] : i \in DOMAIN s}

\* the locals of the cycle of category cat are in scope
InCycle == pc \in {"item", "send", "after_loop", "next", "crashed"}

\* what a new process would detect for category cat from the same snapshot:
\* WikinewsBot(category_config).check_for_new_articles() over all_articles
Redetect ==
    check_for_new_articles(
        all_articles,
        load_last_checked_article_title(file[state_file_path(cat)],
                                        MONITORED_CATEGORIES[cat]))

\* some send_message call of this cycle delivered the article
ItemDelivered(title) ==
    \E p \in DOMAIN sent : sent[p].title = title /\ sent[p].ok

\* every target was tried for the article and every send_message call failed
ItemFailed(title) ==
    /\ \A g \in telegram_targets :
          \E p \in DOMAIN sent : sent[p].title = title /\ sent[p].target = g
    /\ \A p \in DOMAIN sent : sent[p].title = title => ~sent[p].ok

\* the titles a state file records as notified: save_last_checked_article
\* writes one record {title, timestamp}
saved_titles(f) == IF f \in Titles THEN {f} ELSE {}

\* the article of the last successful send_message call of this cycle
LastDelivered ==
    LET p == CHOOSE q \in DOMAIN sent :
                /\ sent[q].ok
                /\ \A r \in (q + 1)..Len(sent) : ~sent[r].ok
    IN  sent[p].title

\* position of an article in new_articles
ItemNo(title) == CHOOSE i \in DOMAIN new_articles : new_articles[i] = title

\* new_articles is all_articles[0..i) oldest first
IsOldestFirstUpTo(i) ==
    /\ Len(new_articles) = i - 1
    /\ \A k \in 1..(i - 1) : new_articles[k] = all_articles[i - k]

----------------------------------------------------------------------------
(* The detector alone: check_for_new_articles applied to any member list   *)
(* (titles may repeat) and any loaded title, None included                 *)

InitDetect ==
    /\ file = [f \in STATE_FILES |-> Absent]
    /\ pc = "detect"
    /\ cat = 1
    /\ last_checked \in DetectTitles \cup {None}
    /\ all_articles \in SeqsUpTo(DetectTitles, MaxDetectLen)
    /\ new_articles = <<>>
    /\ idx = 0
    /\ tgt = 0
    /\ latest_article_data = None
    /\ sent = <<>>
    /\ file_before = Absent
    /\ save_result = "none"
    /\ request_failed = FALSE
    /\ watch = NoWatch
    /\ delivered = 0
    /\ InitText

Detect ==
    /\ pc = "detect"
    /\ new_articles' = check_for_new_articles(all_articles, last_checked)
    /\ pc' = "detected"
    /\ UNCHANGED <<file, cat, last_checked, all_articles, idx, tgt,
                   latest_article_data, sent, file_before, save_result,
                   request_failed, watch, delivered, text_vars>>

NextDetect == Detect

SpecDetect == InitDetect /\ [][NextDetect]_vars

----------------------------------------------------------------------------
(* sentence_splitter.py: split_into_sentences *)

UPPER == <<"A", "B", "C", "D", "E", "F", "G", "H", "I", "J", "K", "L", "M",
           "N", "O", "P", "Q", "R", "S", "T", "U", "V", "W", "X", "Y", "Z">>
LOWER == <<"a", "b", "c", "d", "e", "f", "g", "h", "i", "j", "k", "l", "m",
           "n", "o", "p", "q", "r", "s", "t", "u", "v", "w", "x", "y", "z">>
DIGITS == <<"0", "1", "2", "3", "4", "5", "6", "7", "8", "9">>

\* EXCEPTION_STRING up to 'e.t.a.'
NAMED_EXCEPTIONS ==
    << <<".", ".", ".">>,
       <<"M", "r", ".">>,
       <<"M", "r", "s", ".">>,
       <<"D", "r", ".">>,
       <<"J", "r", ".">>,
       <<"S", "r", ".">>,
       <<"P", "r", "o", "f", ".">>,
       <<"S", "t", ".">>,
       <<"A", "v", "e", ".">>,
       <<"C", "o", "r", "p", ".">>,
       <<"I", "n", "c", ".">>,
       <<"L", "t", "d", ".">>,
       <<"C", "o", ".">>,
       <<"G", "o", "v", ".">>,
       <<"C", "a", "p", "t", ".">>,
       <<"S", "g", "t", ".">>,
       <<"e", "t", " ", "a", "l", ".">>,
       <<"v", "s", ".">>,
       <<"e", ".", "t", ".", "a", ".">> >>

\* PERIOD_EXCEPTIONS = EXCEPTION_STRING.split('; '), in the order of the
\* string: the named ones, '.A.' to '.Z.', ' A.' to ' Z.', '.a.' to '.z.'
\* (where the string has '.m' for '.m.'), '.a' to '.z', '0.0' to '9.8', then
\* '9.9. .0' (the string has '. ' for '; ' here), '.1' to '.8', and '.9;'
PERIOD_EXCEPTIONS ==
    NAMED_EXCEPTIONS
    \o [i \in 1..26 |-> <<".", UPPER[i], ".">>]
    \o [i \in 1..26 |-> <<" ", UPPER[i], ".">>]
    \o [i \in 1..26 |-> IF LOWER[i] = "m" THEN <<".", "m">>
                        ELSE <<".", LOWER[i], ".">>]
    \o [i \in 1..26 |-> <<".", LOWER[i]>>]
    \o [i \in 1..99 |-> <<DIGITS[((i - 1) \div 10) + 1], ".",
                          DIGITS[((i - 1) % 10) + 1]>>]
    \o << <<"9", ".", "9", ".", " ", ".", "0">> >>
    \o [i \in 1..8 |-> <<".", DIGITS[i + 1]>>]
    \o << <<".", "9", ";">> >>

PERIOD_PLACEHOLDER ==
    <<"P", "E", "R", "I", "O", "D", "_", "P", "L", "A", "C", "E", "H", "O",
      "L", "D", "E", "R">>

\* s[n:]
Drop(s, n) == SubSeq(s, n + 1, Len(s))

\* s[i:].startswith(sub), i counted from 1
OccursAt(s, sub, i) ==
    /\ i + Len(sub) - 1 <= Len(s)
    /\ \A k \in DOMAIN sub : s[i + k - 1] = sub[k]

\* s.find(sub) counted from 1: the first place where sub occurs, 0 if none
Find(s, sub) ==
    LET places == {i \in DOMAIN s : OccursAt(s, sub, i)}
    IN  IF places = {} THEN 0
        ELSE CHOOSE i \in places : \A j \in places : i <= j

RECURSIVE Replace(_, _, _)
\* s.replace(old, new) for a non-empty old: the occurrences of old, found
\* from the left and not overlapping, become new
Replace(s, old, new) ==
    LET i == Find(s, old)
    IN  IF i = 0 THEN s
        ELSE Prefix(s, i - 1) \o new
             \o Replace(Drop(s, i - 1 + Len(old)), old, new)

\* PERIOD_EXCEPTION_PLACEHOLDERS =
\* EXCEPTION_STRING.replace('.', PERIOD_PLACEHOLDER).split('; ')
PERIOD_EXCEPTION_PLACEHOLDERS ==
    [i \in DOMAIN PERIOD_EXCEPTIONS |->
        Replace(PERIOD_EXCEPTIONS[i], <<".">>, PERIOD_PLACEHOLDER)]

RECURSIVE ReplaceEach(_, _, _, _, _)
\* for i in range(lo, hi + 1): s = s.replace(olds[i], news[i]); the range
\* is done in two halves, one after the other
ReplaceEach(s, olds, news, lo, hi) ==
    IF lo > hi THEN s
    ELSE IF lo = hi THEN Replace(s, olds[lo], news[lo])
    ELSE LET mid == (lo + hi) \div 2
             half == ReplaceEach(s, olds, news, lo, mid)
         IN  IF Len(half) = 0 THEN half
             ELSE ReplaceEach(half, olds, news, mid + 1, hi)

insert_placeholders(s, period_exceptions, period_exception_placeholders) ==
    ReplaceEach(s, period_exceptions, period_exception_placeholders,
                1, Len(period_exceptions))

remove_placeholders(s, period_exceptions, period_exception_placeholders) ==
    ReplaceEach(s, period_exception_placeholders, period_exceptions,
                1, Len(period_exceptions))

RECURSIVE re_split_punct(_)
\* re.split(r'([.!?])', s): text, delimiter, text, ..., text
re_split_punct(s) ==
    LET places == {i \in DOMAIN s : s[i] \in {".", "!", "?"}}
    IN  IF places = {} THEN <<s>>
        ELSE LET i == CHOOSE k \in places : \A j \in places : k <= j
             IN  <<Prefix(s, i - 1), <<s[i]>> >> \o re_split_punct(Drop(s, i))

RECURSIVE LeadingQuotes(_)
\* re.match(r'^"+', s).group(0), empty without a match
LeadingQuotes(s) ==
    IF s # <<>> /\ Head(s) = "\"" THEN <<"\"">> \o LeadingQuotes(Tail(s))
    ELSE <<>>

RECURSIVE join_sentence_parts(_)
\* the while loop of split_into_sentences over sentence_parts, then the
\* handling of the last part
join_sentence_parts(sentence_parts) ==
    IF Len(sentence_parts) = 1
    THEN LET last_part == Strip(sentence_parts[1])
         IN  IF Len(last_part) > 0
             THEN << remove_placeholders(last_part, PERIOD_EXCEPTIONS,
                                         PERIOD_EXCEPTION_PLACEHOLDERS) >>
             ELSE <<>>
    ELSE LET next_part == Strip(sentence_parts[3])
             quote_match == LeadingQuotes(next_part)
             sentence == sentence_parts[1] \o sentence_parts[2] \o quote_match
             rest == IF quote_match # <<>>
                     THEN Drop(next_part, Len(quote_match))
                     ELSE sentence_parts[3]
         IN  << remove_placeholders(sentence, PERIOD_EXCEPTIONS,
                                    PERIOD_EXCEPTION_PLACEHOLDERS) >>
             \o join_sentence_parts(<<rest>> \o Drop(sentence_parts, 3))

split_into_sentences(s) ==
    IF s = <<>> THEN <<>>
    ELSE join_sentence_parts(
             re_split_punct(
                 insert_placeholders(s, PERIOD_EXCEPTIONS,
                                     PERIOD_EXCEPTION_PLACEHOLDERS)))

----------------------------------------------------------------------------
(* re: regular expressions, matched as Python's re matches them.  An        *)
(* expression is a tree; Match lists the ways it matches at a place in the  *)
(* order in which the backtracking matcher tries them, so the first is the  *)
(* match re finds there.                                                    *)

\* [...] and [^...]
In(set) == [op |-> "in", set |-> set, items |-> <<>>, lazy |-> FALSE,
            min |-> 0, n |-> 0]
NotIn(set) == [op |-> "notin", set |-> set, items |-> <<>>, lazy |-> FALSE,
               min |-> 0, n |-> 0]
\* r1 r2 ... and r1|r2|...
Cat(items) == [op |-> "seq", set |-> {}, items |-> items, lazy |-> FALSE,
               min |-> 0, n |-> 0]
Alt(items) == [op |-> "alt", set |-> {}, items |-> items, lazy |-> FALSE,
               min |-> 0, n |-> 0]
\* r*, r+, r*?, r+?
Star(r) == [op |-> "star", set |-> {}, items |-> <<r>>, lazy |-> FALSE,
            min |-> 0, n |-> 0]
Plus(r) == [op |-> "star", set |-> {}, items |-> <<r>>, lazy |-> FALSE,
            min |-> 1, n |-> 0]
StarLazy(r) == [op |-> "star", set |-> {}, items |-> <<r>>, lazy |-> TRUE,
                min |-> 0, n |-> 0]
PlusLazy(r) == [op |-> "star", set |-> {}, items |-> <<r>>, lazy |-> TRUE,
                min |-> 1, n |-> 0]
\* r?
Opt(r) == Alt(<<r, Cat(<<>>)>>)
\* the n-th capturing group (r)
Group(n, r) == [op |-> "group", set |-> {}, items |-> <<r>>, lazy |-> FALSE,
                min |-> 0, n |-> n]
\* a literal string
Lit(chars) == Cat([i \in DOMAIN chars |-> In({chars[i]})])

\* the other case of a letter, the character itself if it is no letter
SwapCase(c) ==
    IF \E i \in DOMAIN LOWER : LOWER[i] = c
    THEN UPPER[CHOOSE i \in DOMAIN LOWER : LOWER[i] = c]
    ELSE IF \E i \in DOMAIN UPPER : UPPER[i] = c
    THEN LOWER[CHOOSE i \in DOMAIN UPPER : UPPER[i] = c]
    ELSE c

\* a literal string under re.IGNORECASE
LitI(chars) == Cat([i \in DOMAIN chars |-> In({chars[i], SwapCase(chars[i])})])

\* \s, [\s\S], . and [a-z]
WhiteSpace == {" ", "\t", "\n", "\r", "\f"}
AnyChar == NotIn({})
Dot == NotIn({"\n"})
LowerCase == In({LOWER[i] : i \in DOMAIN LOWER})

\* no group has matched: each group's span is (0, 0)
NoGroups == << <<0, 0>>, <<0, 0>> >>

RECURSIVE Match(_, _, _, _), MatchEach(_, _, _), MatchCat(_, _, _, _),
          MatchAlt(_, _, _, _, _), MatchStar(_, _, _, _, _),
          MatchStarEach(_, _, _, _)

\* the matches of r in s that begin at place i, each with the place after
\* its end and the spans of the groups
Match(r, s, i, groups) ==
    CASE r.op = "in" ->
            IF i <= Len(s) /\ s[i] \in r.set
            THEN << [pos |-> i + 1, groups |-> groups] >> ELSE <<>>
      [] r.op = "notin" ->
            IF i <= Len(s) /\ s[i] \notin r.set
            THEN << [pos |-> i + 1, groups |-> groups] >> ELSE <<>>
      [] r.op = "seq" ->
            MatchCat(r.items, 1, s, << [pos |-> i, groups |-> groups] >>)
      [] r.op = "alt" -> MatchAlt(r.items, 1, s, i, groups)
      [] r.op = "star" -> MatchStar(r, s, i, groups, 0)
      [] r.op = "group" ->
            LET ms == Match(r.items[1], s, i, groups)
            IN  [k \in DOMAIN ms |->
                    [pos |-> ms[k].pos,
                     groups |-> [ms[k].groups EXCEPT ![r.n] = <<i, ms[k].pos>>]]]

\* the matches of r from each of the places in from, in their order
MatchEach(r, s, from) ==
    IF from = <<>> THEN <<>>
    ELSE Match(r, s, from[1].pos, from[1].groups)
         \o MatchEach(r, s, Tail(from))

MatchCat(items, k, s, from) ==
    IF k > Len(items) \/ from = <<>> THEN from
    ELSE MatchCat(items, k + 1, s, MatchEach(items[k], s, from))

MatchAlt(items, k, s, i, groups) ==
    IF k > Len(items) THEN <<>>
    ELSE Match(items[k], s, i, groups) \o MatchAlt(items, k + 1, s, i, groups)

\* count repetitions of r.items[1] were matched before place i; a
\* repetition that matches the empty string is not repeated
MatchStar(r, s, i, groups, count) ==
    LET Moves(m) == m.pos > i
        once == SelectSeq(Match(r.items[1], s, i, groups), Moves)
        more == MatchStarEach(r, s, once, count + 1)
        stop == IF count >= r.min
                THEN << [pos |-> i, groups |-> groups] >> ELSE <<>>
    IN  IF r.lazy THEN stop \o more ELSE more \o stop

MatchStarEach(r, s, from, count) ==
    IF from = <<>> THEN <<>>
    ELSE MatchStar(r, s, from[1].pos, from[1].groups, count)
         \o MatchStarEach(r, s, Tail(from), count)

\* pattern.match at place i: the first match, with pos = 0 if there is none
\* (a match of the empty string counts as none: no pattern of the module
\* matches it)
MatchAt(r, s, i) ==
    LET ms == Match(r, s, i, NoGroups)
    IN  IF ms # <<>> /\ ms[1].pos > i THEN ms[1]
        ELSE [pos |-> 0, groups |-> NoGroups]

\* re.search(r, s) is not None
re_search(r, s) == \E i \in DOMAIN s : MatchAt(r, s, i).pos # 0

\* match.group(n), the empty string for a group that did not take part
GroupText(s, groups, n) == SubSeq(s, groups[n][1], groups[n][2] - 1)

RECURSIVE Expand(_, _, _)
\* the replacement for a match.  An item of repl is a literal text (g = 0),
\* or \g, or, with alt # 0, group g if it is not empty and else group alt
Expand(repl, s, groups) ==
    IF repl = <<>> THEN <<>>
    ELSE LET item == repl[1]
             this == IF item.g = 0 THEN item.lit
                     ELSE IF item.alt # 0 /\ GroupText(s, groups, item.g) = <<>>
                     THEN GroupText(s, groups, item.alt)
                     ELSE GroupText(s, groups, item.g)
         IN  this \o Expand(Tail(repl), s, groups)

Text(chars) == [g |-> 0, alt |-> 0, lit |-> chars]
Ref(n) == [g |-> n, alt |-> 0, lit |-> <<>>]
RefOr(n, m) == [g |-> n, alt |-> m, lit |-> <<>>]

RECURSIVE SubFrom(_, _, _, _)
\* re.sub(r, repl, s) from place i on: the matches are looked for from the
\* left, each after the end of the one before
SubFrom(r, repl, s, i) ==
    IF i > Len(s) THEN <<>>
    ELSE LET m == MatchAt(r, s, i)
         IN  IF m.pos # 0
             THEN Expand(repl, s, m.groups) \o SubFrom(r, repl, s, m.pos)
             ELSE <<s[i]>> \o SubFrom(r, repl, s, i + 1)

re_sub(r, repl, s) == SubFrom(r, repl, s, 1)

----------------------------------------------------------------------------
(* sentence_splitter.py: the cleaning steps of cleanup_content *)

remove_comments(s) ==
    LET \* r'<!--[\s\S]*?-->'
        COMMENT == Cat(<<Lit(<<"<", "!", "-", "-">>), StarLazy(AnyChar),
                         Lit(<<"-", "-", ">">>)>>)
    IN  re_sub(COMMENT, <<>>, s)

remove_notice_templates(s) ==
    LET \* r'\{\{(?:Ombox|[Aa]mbox|[Mm]box|[Nn]otice|[Mm]essage)[^}]*?\|\s*text\s*=
        \*   \s*([^}\|]+)(?:[^}]*?)\}\}'
        NOTICE_TEMPLATE ==
            Cat(<<Lit(<<"{", "{">>),
                  Alt(<<Lit(<<"O", "m", "b", "o", "x">>),
                        Cat(<<In({"A", "a"}), Lit(<<"m", "b", "o", "x">>)>>),
                        Cat(<<In({"M", "m"}), Lit(<<"b", "o", "x">>)>>),
                        Cat(<<In({"N", "n"}), Lit(<<"o", "t", "i", "c", "e">>)>>),
                        Cat(<<In({"M", "m"}), Lit(<<"e", "s", "s", "a", "g", "e">>)>>)>>),
                  StarLazy(NotIn({"}"})), Lit(<<"|">>), Star(In(WhiteSpace)),
                  Lit(<<"t", "e", "x", "t">>), Star(In(WhiteSpace)), Lit(<<"=">>),
                  Star(In(WhiteSpace)), Group(1, Plus(NotIn({"}", "|"}))),
                  StarLazy(NotIn({"}"})), Lit(<<"}", "}">>)>>)
    IN  re_sub(NOTICE_TEMPLATE, <<Ref(1)>>, s)

\* replace_w_template: f"[[{p2}]]" if p2 else f"[[{p1}]]"
fix_wikilinks(s) ==
    LET \* (?:[^|{}]|\{\{[^{}]*\}\})
        W_TEMPLATE_PART ==
            Alt(<<NotIn({"|", "{", "}"}),
                  Cat(<<Lit(<<"{", "{">>), Star(NotIn({"{", "}"})),
                        Lit(<<"}", "}">>)>>)>>)
        \* r'\{\{[Ww]\|((?:[^|{}]|\{\{[^{}]*\}\})*?)
        \*   (?:\|((?:[^|{}]|\{\{[^{}]*\}\})*?))?\}\}'
        W_TEMPLATE ==
            Cat(<<Lit(<<"{", "{">>), In({"W", "w"}), Lit(<<"|">>),
                  Group(1, StarLazy(W_TEMPLATE_PART)),
                  Opt(Cat(<<Lit(<<"|">>), Group(2, StarLazy(W_TEMPLATE_PART))>>)),
                  Lit(<<"}", "}">>)>>)
    IN  re_sub(W_TEMPLATE,
               <<Text(<<"[", "[">>), RefOr(2, 1), Text(<<"]", "]">>)>>, s)

\* r'\[\[(?:File|Image|Media):', re.IGNORECASE
MEDIA_START ==
    Cat(<<Lit(<<"[", "[">>),
          Alt(<<LitI(<<"F", "i", "l", "e">>), LitI(<<"I", "m", "a", "g", "e">>),
                LitI(<<"M", "e", "d", "i", "a">>)>>),
          Lit(<<":">>)>>)

\* re.search(r, s).start() counted from 1, 0 if there is no match
SearchStart(r, s) ==
    LET places == {i \in DOMAIN s : MatchAt(r, s, i).pos # 0}
    IN  IF places = {} THEN 0
        ELSE CHOOSE i \in places : \A j \in places : i <= j

RECURSIVE ScanBrackets(_, _, _)
\* the inner while loop of remove_media_links: end_index (here counted from
\* 1) and depth when it ends
ScanBrackets(s, end_index, depth) ==
    IF depth > 0 /\ end_index < Len(s)
    THEN IF s[end_index] = "[" /\ s[end_index + 1] = "["
         THEN ScanBrackets(s, end_index + 2, depth + 1)
         ELSE IF s[end_index] = "]" /\ s[end_index + 1] = "]"
         THEN ScanBrackets(s, end_index + 2, depth - 1)
         ELSE ScanBrackets(s, end_index + 1, depth)
    ELSE [end_index |-> end_index, depth |-> depth]

RECURSIVE RemoveNestedMedia(_)
\* the outer while loop of remove_media_links
RemoveNestedMedia(cleaned_text) ==
    LET start_index == SearchStart(MEDIA_START, cleaned_text)
        scan == ScanBrackets(cleaned_text, start_index + 2, 1)
    IN  IF start_index = 0 THEN cleaned_text
        ELSE IF scan.depth = 0
        THEN RemoveNestedMedia(Prefix(cleaned_text, start_index - 1)
                               \o Drop(cleaned_text, scan.end_index - 1))
        ELSE cleaned_text

remove_media_links(s) ==
    LET \* r'\[\[(?:File|Image|Media):[^\[\]]*?\]\]', re.IGNORECASE
        MEDIA_LINK ==
            Cat(<<MEDIA_START, StarLazy(NotIn({"[", "]"})), Lit(<<"]", "]">>)>>)
    IN  RemoveNestedMedia(re_sub(MEDIA_LINK, <<>>, s))

\* r'\{\{[^\}]*\}\}', the condition of the loop of remove_templates
TEMPLATE_MARKERS ==
    Cat(<<Lit(<<"{", "{">>), Star(NotIn({"}"})), Lit(<<"}", "}">>)>>)

\* strip_templates = re.compile(r'\{\{[^\}\{]*(?:\{\{[^\}\{]*(?:\{\{[^\}\{]*
\*   (?:\{\{[^\}\{]*\}\})?\}\})?\}\})?\}\}')
STRIP_TEMPLATES ==
    LET \* \{\{[^\}\{]*\}\} and, around it, three times \{\{[^\}\{]*(?: ... )?\}\}
        NESTED_TEMPLATE(inner) ==
            Cat(<<Lit(<<"{", "{">>), Star(NotIn({"}", "{"})), Opt(inner),
                  Lit(<<"}", "}">>)>>)
    IN  NESTED_TEMPLATE(NESTED_TEMPLATE(NESTED_TEMPLATE(
            Cat(<<Lit(<<"{", "{">>), Star(NotIn({"}", "{"})),
                  Lit(<<"}", "}">>)>>))))

\* the body of the loop of remove_templates: strip_templates.sub('', text)
strip_templates_sub(s) == re_sub(STRIP_TEMPLATES, <<>>, s)

RECURSIVE remove_templates(_)
\* while re.search(r'\{\{[^\}]*\}\}', text): text = strip_templates.sub(...)
remove_templates(s) ==
    IF re_search(TEMPLATE_MARKERS, s)
    THEN remove_templates(strip_templates_sub(s))
    ELSE s

remove_categories(s) ==
    LET \* r'\[\[(?:Category):[\s\S]*?\]\]', re.IGNORECASE
        CATEGORY_LINK ==
            Cat(<<Lit(<<"[", "[">>),
                  LitI(<<"C", "a", "t", "e", "g", "o", "r", "y">>), Lit(<<":">>),
                  StarLazy(AnyChar), Lit(<<"]", "]">>)>>)
    IN  re_sub(CATEGORY_LINK, <<>>, s)

\* r'[«»‹›『』「」]': the two guillemets, and the six characters U+2039,
\* U+203A, U+300E, U+300F, U+300C and U+300D, written by their code points
QUOTE_MARKS ==
    In({"«", "»", "U+2039", "U+203A", "U+300E", "U+300F", "U+300C",
        "U+300D"})

clean_formatting(s) ==
    LET \* r"'''''(.+?)'''''", r"'''(.+?)'''" and r"''(.+?)''" for n = 5, 3, 2
        QUOTED(n) ==
            Cat(<<Lit([i \in 1..n |-> "'"]), Group(1, PlusLazy(Dot)),
                  Lit([i \in 1..n |-> "'"])>>)
    IN  re_sub(QUOTE_MARKS, <<>>,
            re_sub(QUOTED(2), <<Ref(1)>>,
                re_sub(QUOTED(3), <<Ref(1)>>,
                    re_sub(QUOTED(5), <<Ref(1)>>, s))))

\* piped_link = re.compile(r'\[\[(?:[^|\]]*\|)?([^\]]+)\]\]')
PIPED_LINK ==
    Cat(<<Lit(<<"[", "[">>),
          Opt(Cat(<<Star(NotIn({"|", "]"})), Lit(<<"|">>)>>)),
          Group(1, Plus(NotIn({"]"}))), Lit(<<"]", "]">>)>>)

RECURSIVE replace_piped_links(_)
\* while re.search(r'\[\[', text): text = piped_link.sub(r'\1', text)
replace_piped_links(s) ==
    IF re_search(Lit(<<"[", "[">>), s)
    THEN replace_piped_links(re_sub(PIPED_LINK, <<Ref(1)>>, s))
    ELSE s

handle_links(s) ==
    LET \* r'\[(?:https?|ftp|gopher|irc)://[^\]\s]*(?:\s+([^\]]+))?\]'
        EXTERNAL_LINK ==
            Cat(<<Lit(<<"[">>),
                  Alt(<<Cat(<<Lit(<<"h", "t", "t", "p">>), Opt(In({"s"}))>>),
                        Lit(<<"f", "t", "p">>), Lit(<<"g", "o", "p", "h", "e", "r">>),
                        Lit(<<"i", "r", "c">>)>>),
                  Lit(<<":", "/", "/">>), Star(NotIn({"]"} \cup WhiteSpace)),
                  Opt(Cat(<<Plus(In(WhiteSpace)), Group(1, Plus(NotIn({"]"})))>>)),
                  Lit(<<"]">>)>>)
    IN  re_sub(EXTERNAL_LINK, <<Ref(1), Text(<<" ">>)>>, replace_piped_links(s))

remove_html_and_tables(s) ==
    LET \* r'<ref[^>]*?>[\s\S]*?</ref>'
        REF_ELEMENT ==
            Cat(<<Lit(<<"<", "r", "e", "f">>), StarLazy(NotIn({">"})), Lit(<<">">>),
                  StarLazy(AnyChar), Lit(<<"<", "/", "r", "e", "f", ">">>)>>)
        \* r'<ref[^>\/]*?/>'
        REF_EMPTY ==
            Cat(<<Lit(<<"<", "r", "e", "f">>), StarLazy(NotIn({">", "/"})),
                  Lit(<<"/", ">">>)>>)
        \* r'<[^>]+>'
        HTML_TAG == Cat(<<Lit(<<"<">>), Plus(NotIn({">"})), Lit(<<">">>)>>)
        \* r'\{\|[\s\S]*?\|\}'
        TABLE == Cat(<<Lit(<<"{", "|">>), StarLazy(AnyChar), Lit(<<"|", "}">>)>>)
    IN  re_sub(TABLE, <<>>,
            re_sub(HTML_TAG, <<>>,
                re_sub(REF_EMPTY, <<>>,
                    re_sub(REF_ELEMENT, <<>>, s))))

\* r'(\r\n|\n|\r)'
LINE_BREAK == Alt(<<Lit(<<"\r", "\n">>), Lit(<<"\n">>), Lit(<<"\r">>)>>)

\* r'&nbsp;'
NBSP == Lit(<<"&", "n", "b", "s", "p", ";">>)

\* r'&[a-z]+;'
ENTITY == Cat(<<Lit(<<"&">>), Plus(LowerCase), Lit(<<";">>)>>)

\* variant: the result is not stripped
clean_whitespace_unstripped(s) ==
    re_sub(Plus(In(WhiteSpace)), <<Text(<<" ">>)>>,
        re_sub(ENTITY, <<>>,
            re_sub(NBSP, <<Text(<<" ">>)>>,
                re_sub(LINE_BREAK, <<Text(<<" ">>)>>, s))))

clean_whitespace(s) ==
    Strip(re_sub(Plus(In(WhiteSpace)), <<Text(<<" ">>)>>,
              re_sub(ENTITY, <<>>,
                  re_sub(NBSP, <<Text(<<" ">>)>>,
                      re_sub(LINE_BREAK, <<Text(<<" ">>)>>, s)))))

remove_headers(s) ==
    LET \* r'==+\s*[^=]+\s*==+'
        HEADER ==
            Cat(<<Lit(<<"=">>), Plus(In({"="})), Star(In(WhiteSpace)),
                  Plus(NotIn({"="})), Star(In(WhiteSpace)), Lit(<<"=">>),
                  Plus(In({"="}))>>)
    IN  re_sub(HEADER, <<>>, s)

\* cleanup_content up to the split into sentences: the eleven steps, in order
clean_steps(content) ==
    remove_headers(
     clean_whitespace(
      remove_html_and_tables(
       handle_links(
        clean_formatting(
         remove_categories(
          remove_templates(
           remove_media_links(
            fix_wikilinks(
             remove_notice_templates(
              remove_comments(content)))))))))))

----------------------------------------------------------------------------
(* get_article_summary alone.  The three methods are its three API          *)
(* requests; what cleanup_content, BeautifulSoup and split_into_sentences   *)
(* make of a response is an input of the method.                            *)

\* len(summary.strip()) > 10
SummaryMinChars == 10
\* len(clean_sentence) > 15
SentenceMinChars == 15
\* len(text_content) > 20
ParagraphMinChars == 20

\* variant: the length is taken of the summary as it is
method1_accepts_untrimmed(s) == s # <<>> /\ Len(s) > SummaryMinChars

\* METHOD 1: summary and len(summary.strip()) > 10
method1_accepts(s) == s # <<>> /\ Len(Strip(s)) > SummaryMinChars

RECURSIVE first_meaningful(_, _)
\* METHOD 2: the loop that collects the stripped sentences longer than 15
\* characters and breaks at the n-th
first_meaningful(ss, n) ==
    IF ss = <<>> \/ n = 0 THEN <<>>
    ELSE IF Len(Strip(Head(ss))) > SentenceMinChars
    THEN <<Strip(Head(ss))>> \o first_meaningful(Tail(ss), n - 1)
    ELSE first_meaningful(Tail(ss), n)

\* METHOD 2: meaningful_sentences
meaningful_sentences(ss) == first_meaningful(ss, 2)

\* summaries cleanup_content may return for the wikitext of a page
WikitextSummaries ==
    UNION {{Filler(n), Padded(n)} :
              n \in {0, SummaryMinChars, SummaryMinChars + 1}}

\* METHOD 1's response: no page or no revision, or the page's wikitext, of
\* which summary is what cleanup_content returns
WikitextResponses ==
    {[available |-> FALSE, summary |-> <<>>]} \cup
    {[available |-> TRUE, summary |-> w] : w \in WikitextSummaries}

SentenceTexts ==
    {Filler(SentenceMinChars), Padded(SentenceMinChars),
     Padded(SentenceMinChars + 1), <<"y">> \o Filler(SentenceMinChars)}

\* what split_into_sentences may return for a text
SentenceLists == SeqsUpTo(SentenceTexts, MaxSentences)

\* METHOD 2's response: no parse result, or the page's HTML, of which
\* sentences is what split_into_sentences makes of its text
HtmlResponses ==
    {[available |-> FALSE, sentences |-> <<>>]} \cup
    {[available |-> TRUE, sentences |-> ss] : ss \in SentenceLists}

\* p.get_text().strip() of a paragraph
ParagraphTexts ==
    {<<>>, Filler(ParagraphMinChars), Filler(ParagraphMinChars + 1)}

\* METHOD 3's response: no parse result, or section 0 with its <p>
\* elements and possibly text outside them
SectionResponses ==
    {[available |-> FALSE, paragraphs |-> <<>>, other_text |-> FALSE]} \cup
    [available : {TRUE},
     paragraphs : SeqsUpTo(ParagraphTexts, MaxSentences - 1),
     other_text : BOOLEAN]

\* what split_into_sentences may return for t: [] for the empty string
SplitResults(t) == IF t = <<>> THEN {<<>>} ELSE SentenceLists

InitSummary ==
    /\ file = [f \in STATE_FILES |-> Absent]
    /\ pc = "method1"
    /\ cat = 1
    /\ last_checked = None
    /\ all_articles = <<>>
    /\ new_articles = <<>>
    /\ idx = 0
    /\ tgt = 0
    /\ latest_article_data = None
    /\ sent = <<>>
    /\ file_before = Absent
    /\ save_result = "none"
    /\ request_failed = FALSE
    /\ watch = NoWatch
    /\ delivered = 0
    /\ InitText

bot_vars == <<file, cat, last_checked, all_articles, new_articles, idx, tgt,
              latest_article_data, sent, file_before, save_result,
              request_failed, watch, delivered>>

\* METHOD 1: the full wikitext through cleanup_content
Method1 ==
    /\ pc = "method1"
    /\ fetched' = Append(fetched, "wikitext")
    /\ \E response \in WikitextResponses :
          /\ summary' = response.summary
          /\ pc' = IF response.available /\ method1_accepts(response.summary)
                   THEN "returned" ELSE "method2"
    /\ UNCHANGED <<bot_vars, text, clean_text, sentences>>

\* METHOD 2: the text of the full parsed HTML through split_into_sentences
Method2 ==
    /\ pc = "method2"
    /\ fetched' = Append(fetched, "html")
    /\ \E response \in HtmlResponses :
          /\ sentences' = response.sentences
          /\ IF meaningful_sentences(response.sentences) # <<>>
             THEN /\ summary' =
                         Join(<<" ">>, meaningful_sentences(response.sentences))
                  /\ pc' = "returned"
             ELSE /\ summary' = summary
                  /\ pc' = "method3"
    /\ UNCHANGED <<bot_vars, text, clean_text>>

\* the first paragraph longer than 20 characters, 0 if there is none
first_paragraph(paragraphs) ==
    IF \E i \in DOMAIN paragraphs : Len(paragraphs[i]) > ParagraphMinChars
    THEN CHOOSE i \in DOMAIN paragraphs :
            /\ Len(paragraphs[i]) > ParagraphMinChars
            /\ \A j \in 1..(i - 1) : Len(paragraphs[j]) <= ParagraphMinChars
    ELSE 0

\* METHOD 3: section 0 of the parsed HTML.  Without a suitable paragraph
\* the code splits text_content, the text of the last <p> it looked at: a
\* name that is unbound when the section has no <p> at all
Method3 ==
    /\ pc = "method3"
    /\ fetched' = Append(fetched, "section0")
    /\ \E response \in SectionResponses :
        LET paragraphs == response.paragraphs
            p == first_paragraph(paragraphs)
            all_text == IF response.other_text
                        THEN Join(<<" ">>, paragraphs) \o <<"x">>
                        ELSE Strip(Join(<<" ">>, paragraphs))
            split_text == IF p # 0 THEN paragraphs[p]
                          ELSE IF paragraphs # <<>>
                          THEN paragraphs[Len(paragraphs)]
                          ELSE <<>>
        IN  IF ~response.available \/ (p = 0 /\ all_text = <<>>)
            THEN \* return ""
                 /\ summary' = <<>>
                 /\ pc' = "returned"
                 /\ sentences' = sentences
            ELSE IF p = 0 /\ paragraphs = <<>>
            THEN \* UnboundLocalError: text_content
                 /\ pc' = "raised"
                 /\ UNCHANGED <<summary, sentences>>
            ELSE \E split \in SplitResults(split_text) :
                 /\ sentences' = split
                 /\ summary' = Join(<<" ">>, Slice(split, 2))
                 /\ pc' = "returned"
    /\ UNCHANGED <<bot_vars, text, clean_text>>

NextSummary ==
    \/ Method1
    \/ Method2
    \/ Method3

SpecSummary == InitSummary /\ [][NextSummary]_vars

----------------------------------------------------------------------------
(* split_into_sentences alone, applied to the text of its documented        *)
(* example and to every short text over a few characters                    *)

\* "Dr. Smith met Mr. Jones. It was good."
DrSmithText ==
    <<"D", "r", ".", " ", "S", "m", "i", "t", "h", " ", "m", "e", "t", " ",
      "M", "r", ".", " ", "J", "o", "n", "e", "s", ".", " ", "I", "t", " ",
      "w", "a", "s", " ", "g", "o", "o", "d", ".">>

SplitTexts ==
    LET \* a lower-case letter, a capital, the delimiters, a blank and a quote
        SplitAlphabet == {"a", "A", ".", "!", " ", "\""}
    IN  {DrSmithText} \cup SeqsUpTo(SplitAlphabet, MaxTextLen)

InitSplit ==
    /\ file = [f \in STATE_FILES |-> Absent]
    /\ pc = "split"
    /\ cat = 1
    /\ last_checked = None
    /\ all_articles = <<>>
    /\ new_articles = <<>>
    /\ idx = 0
    /\ tgt = 0
    /\ latest_article_data = None
    /\ sent = <<>>
    /\ file_before = Absent
    /\ save_result = "none"
    /\ request_failed = FALSE
    /\ watch = NoWatch
    /\ delivered = 0
    /\ fetched = <<>>
    /\ summary = <<>>
    /\ text \in SplitTexts
    /\ clean_text = <<>>
    /\ sentences = <<>>

Split ==
    /\ pc = "split"
    /\ sentences' = split_into_sentences(text)
    /\ pc' = "split_done"
    /\ UNCHANGED <<bot_vars, fetched, summary, text, clean_text>>

SpecSplit == InitSplit /\ [][Split]_vars

----------------------------------------------------------------------------
(* The loader alone: WikinewsBot.__init__ of any category over any state    *)
(* files                                                                    *)

StateFiles == {Absent, Corrupt, WrongShape, NoTitle} \cup Titles

InitLoad ==
    /\ file \in [STATE_FILES -> StateFiles]
    /\ pc = "load"
    /\ cat \in Cats
    /\ last_checked = None
    /\ all_articles = <<>>
    /\ new_articles = <<>>
    /\ idx = 0
    /\ tgt = 0
    /\ latest_article_data = None
    /\ sent = <<>>
    /\ file_before = Absent
    /\ save_result = "none"
    /\ request_failed = FALSE
    /\ watch = NoWatch
    /\ delivered = 0
    /\ InitText

Load ==
    /\ pc = "load"
    /\ last_checked' = load_last_checked_article_title(
                            file[state_file_path(cat)],
                            MONITORED_CATEGORIES[cat])
    /\ pc' = "loaded"
    /\ UNCHANGED <<file, cat, all_articles, new_articles, idx, tgt,
                   latest_article_data, sent, file_before, save_result,
                   request_failed, watch, delivered, text_vars>>

SpecLoad == InitLoad /\ [][Load]_vars

-----------------------------------------------------------------------------
(* The cleaning steps of cleanup_content alone, applied to every short text *)
(* over a letter, white space, a quote mark and the delimiters of a tag     *)

CleanupTexts ==
    LET CleanupAlphabet == {"a", " ", "\n", "«", "<", ">"}
    IN  SeqsUpTo(CleanupAlphabet, MaxTextLen)

InitCleanup ==
    /\ file = [f \in STATE_FILES |-> Absent]
    /\ pc = "cleanup"
    /\ cat = 1
    /\ last_checked = None
    /\ all_articles = <<>>
    /\ new_articles = <<>>
    /\ idx = 0
    /\ tgt = 0
    /\ latest_article_data = None
    /\ sent = <<>>
    /\ file_before = Absent
    /\ save_result = "none"
    /\ request_failed = FALSE
    /\ watch = NoWatch
    /\ delivered = 0
    /\ fetched = <<>>
    /\ summary = <<>>
    /\ text \in CleanupTexts
    /\ clean_text = text
    /\ sentences = <<>>

\* clean_text = content, then the eleven steps
Cleanup ==
    /\ pc = "cleanup"
    /\ clean_text' = clean_steps(text)
    /\ pc' = "cleanup_done"
    /\ UNCHANGED <<bot_vars, fetched, summary, text, sentences>>

SpecCleanup == InitCleanup /\ [][Cleanup]_vars

-----------------------------------------------------------------------------
(* remove_templates alone, one pass of its loop at a time, applied to       *)
(* every short text over braces and a letter                                *)

TemplateTexts ==
    LET TemplateAlphabet == {"{", "}", "a"}
    IN  SeqsUpTo(TemplateAlphabet, MaxTemplateLen)

InitTemplates ==
    /\ file = [f \in STATE_FILES |-> Absent]
    /\ pc = "templates"
    /\ cat = 1
    /\ last_checked = None
    /\ all_articles = <<>>
    /\ new_articles = <<>>
    /\ idx = 0
    /\ tgt = 0
    /\ latest_article_data = None
    /\ sent = <<>>
    /\ file_before = Absent
    /\ save_result = "none"
    /\ request_failed = FALSE
    /\ watch = NoWatch
    /\ delivered = 0
    /\ fetched = <<>>
    /\ summary = <<>>
    /\ text \in TemplateTexts
    /\ clean_text = text
    /\ sentences = <<>>

\* the condition of the loop holds: text = strip_templates.sub('', text)
TemplatePass ==
    /\ pc = "templates"
    /\ re_search(TEMPLATE_MARKERS, clean_text)
    /\ clean_text' = strip_templates_sub(clean_text)
    /\ UNCHANGED <<pc, bot_vars, fetched, summary, text, sentences>>

\* the condition of the loop fails: return text
TemplateReturn ==
    /\ pc = "templates"
    /\ ~re_search(TEMPLATE_MARKERS, clean_text)
    /\ pc' = "templates_done"
    /\ UNCHANGED <<bot_vars, text_vars>>

NextTemplates == TemplatePass \/ TemplateReturn

SpecTemplates == InitTemplates /\ [][NextTemplates]_vars

-----------------------------------------------------------------------------
(* handle_links alone, one pass of its loop at a time, applied to every     *)
(* short text over brackets, a bar and a letter                             *)

LinkTexts == SeqsUpTo({"[", "]", "|", "a"}, MaxLinkLen)

InitLinks ==
    /\ file = [f \in STATE_FILES |-> Absent]
    /\ pc = "links"
    /\ cat = 1
    /\ last_checked = None
    /\ all_articles = <<>>
    /\ new_articles = <<>>
    /\ idx = 0
    /\ tgt = 0
    /\ latest_article_data = None
    /\ sent = <<>>
    /\ file_before = Absent
    /\ save_result = "none"
    /\ request_failed = FALSE
    /\ watch = NoWatch
    /\ delivered = 0
    /\ fetched = <<>>
    /\ summary = <<>>
    /\ text \in LinkTexts
    /\ clean_text = text
    /\ sentences = <<>>

\* the condition of the loop holds: text = piped_link.sub(r'\1', text)
LinkPass ==
    /\ pc = "links"
    /\ re_search(Lit(<<"[", "[">>), clean_text)
    /\ clean_text' = re_sub(PIPED_LINK, <<Ref(1)>>, clean_text)
    /\ UNCHANGED <<pc, bot_vars, fetched, summary, text, sentences>>

\* the condition of the loop fails: the external links are replaced and the
\* text is returned
LinkReturn ==
    /\ pc = "links"
    /\ ~re_search(Lit(<<"[", "[">>), clean_text)
    /\ clean_text' = handle_links(clean_text)
    /\ pc' = "links_done"
    /\ UNCHANGED <<bot_vars, fetched, summary, text, sentences>>

SpecLinks == InitLinks /\ [][LinkPass \/ LinkReturn]_vars

-----------------------------------------------------------------------------
(* METHOD 3 of get_article_summary alone, in WikinewsBot and in             *)
(* PublishedFormatter, applied to the same rendered first sections.  A      *)
(* section is the sequence of its nodes, each a <p> element or text outside *)
(* every <p>.                                                               *)

Sections ==
    LET \* nothing, "Hi. ", " Go on! A", and "Ab cd ef. Gh ij kl mn.", a text
        \* of more than 20 characters
        NodeTexts ==
            {<<>>, <<"H", "i", ".", " ">>,
             <<" ", "G", "o", " ", "o", "n", "!", " ", "A">>,
             <<"A", "b", " ", "c", "d", " ", "e", "f", ".", " ", "G", "h",
               " ", "i", "j", " ", "k", "l", " ", "m", "n", ".">>}
    IN  SeqsUpTo([p : BOOLEAN, text : NodeTexts], MaxNodes)

\* p.get_text().strip() for p in soup.find_all('p')
paragraph_texts(section) ==
    LET paragraphs == SelectSeq(section, LAMBDA node : node.p)
    IN  [i \in DOMAIN paragraphs |-> Strip(paragraphs[i].text)]

\* soup.get_text().strip()
all_visible_text(section) ==
    Strip(Join(<<>>, [i \in DOMAIN section |-> section[i].text]))

\* ' '.join(sentences[:2]), the empty string for no sentences
first_two_sentences(t) == Join(<<" ">>, Slice(split_into_sentences(t), 2))

\* PublishedFormatter.get_article_summary from soup on
published_section_summary(section) ==
    LET text_contents == paragraph_texts(section)
        p == first_paragraph(text_contents)
    IN  IF p = 0
        THEN first_two_sentences(all_visible_text(section))
        ELSE first_two_sentences(text_contents[p])

\* WikinewsBot.get_article_summary from soup on.  Without a suitable
\* paragraph and with some visible text the sentences are those of
\* text_content, the text of the last <p> of the loop: a name that is
\* unbound when the section has no <p>
bot_section_summary(section) ==
    LET text_contents == paragraph_texts(section)
        p == first_paragraph(text_contents)
    IN  IF p # 0
        THEN [raised |-> FALSE,
              summary |-> first_two_sentences(text_contents[p])]
        ELSE IF all_visible_text(section) = <<>>
        THEN [raised |-> FALSE, summary |-> <<>>]
        ELSE IF text_contents = <<>>
        THEN [raised |-> TRUE, summary |-> <<>>]
        ELSE [raised |-> FALSE,
              summary |->
                  first_two_sentences(text_contents[Len(text_contents)])]

InitSection ==
    /\ file = [f \in STATE_FILES |-> Absent]
    /\ pc = "section0"
    /\ cat = 1
    /\ last_checked = None
    /\ all_articles = <<>>
    /\ new_articles = <<>>
    /\ idx = 0
    /\ tgt = 0
    /\ latest_article_data = None
    /\ sent = <<>>
    /\ file_before = Absent
    /\ save_result = "none"
    /\ request_failed = FALSE
    /\ watch = NoWatch
    /\ delivered = 0
    /\ fetched = <<"wikitext", "html", "section0">>
    /\ summary = <<>>
    /\ text \in Sections
    /\ clean_text = <<>>
    /\ sentences = <<>>

\* WikinewsBot.get_article_summary returns or raises
BotMethod3 ==
    /\ pc = "section0"
    /\ summary' = bot_section_summary(text).summary
    /\ pc' = IF bot_section_summary(text).raised
             THEN "bot_raised" ELSE "bot_returned"
    /\ UNCHANGED <<bot_vars, fetched, text, clean_text, sentences>>

\* PublishedFormatter.get_article_summary returns
PublishedMethod3 ==
    /\ pc = "section0"
    /\ summary' = published_section_summary(text)
    /\ pc' = "published_returned"
    /\ UNCHANGED <<bot_vars, fetched, text, clean_text, sentences>>

SpecSection == InitSection /\ [][BotMethod3 \/ PublishedMethod3]_vars

----------------------------------------------------------------------------
(* Claims *)

\* C1: over any sequence of runs, with restarts and with titles entering
\* and leaving the category, no title is delivered to a destination more
\* than once.  (Stated for SpecAtMostOnce; the code re-sends.)
AtMostOnce == delivered <= 1

\* C2: when the last-seen title occurs in a non-empty snapshot, first at
\* index i, check_for_new_articles returns exactly snapshot[0..i) oldest
\* first: never the reference item nor anything older, nothing when it is
\* the head.  (Stated for SpecDetect.)
OrdinalDetectionFound ==
    (pc = "detected" /\ last_checked \in Range(all_articles)) =>
        \E i \in DOMAIN all_articles :
            /\ all_articles[i] = last_checked
            /\ \A j \in 1..(i - 1) : all_articles[j] # last_checked
            /\ IsOldestFirstUpTo(i)

OrdinalDetectionFoundWitness ==
    /\ pc = "detected"
    /\ all_articles = <<"D", "C", "B", "A">>
    /\ last_checked = "B"
    /\ new_articles = <<"C", "D">>

\* C3: when the last-seen title is not in a non-empty snapshot (a title that
\* was never set included), check_for_new_articles returns exactly
\* [snapshot[0]].  (Stated for SpecDetect.)
OrdinalDetectionMissing ==
    (/\ pc = "detected"
     /\ all_articles # <<>>
     /\ last_checked \notin Range(all_articles)) =>
        new_articles = <<all_articles[1]>>

OrdinalDetectionMissingWitness ==
    /\ pc = "detected"
    /\ last_checked = None
    /\ Len(all_articles) >= 3
    /\ new_articles = <<all_articles[1]>>

\* C4: detection is idempotent: as long as nothing was dispatched and
\* nothing saved since the detection, detecting again from the state file
\* over the same snapshot returns the same new items; once every returned
\* item was dispatched and the state saved, it returns none.
DetectionIdempotent ==
    /\ (InCycle /\ sent = <<>> /\ save_result = "none") =>
            Redetect = new_articles
    /\ (/\ pc = "next"
        /\ save_result = "ok"
        /\ \A i \in DOMAIN new_articles : ItemDelivered(new_articles[i])) =>
            Redetect = <<>>

DetectionIdempotentWitness ==
    /\ pc = "next"
    /\ save_result = "ok"
    /\ Len(new_articles) = 2
    /\ Len(sent) = 2 * NumTargets
    /\ \A p \in DOMAIN sent : sent[p].ok
    /\ Redetect = <<>>

\* C5: after a category's cycle in which an item was dispatched, the saved
\* title is that of the last item actually dispatched; after a cycle in
\* which none was, the state file is as it was before the cycle.  (A save
\* that failed is left out.)
LastSeenIsLastDispatched ==
    (pc = "next" /\ save_result \in {"none", "ok"}) =>
        IF \E p \in DOMAIN sent : sent[p].ok
        THEN file[state_file_path(cat)] = LastDelivered
        ELSE file[state_file_path(cat)] = file_before

\* C6: an item whose dispatch failed is not recorded as the saved last-seen
\* title, and the next poll over the same snapshot still returns it.
FailedDispatchNotMarked ==
    pc = "next" =>
        \A title \in Range(new_articles) :
            ItemFailed(title) =>
                /\ file[state_file_path(cat)] # title
                /\ title \in Range(Redetect)

\* C7: sent items are marked as each dispatch succeeds: when the process
\* stops in the middle of a category's cycle, the items it delivered are
\* already marked in the state file, so the next poll does not return them.
IncrementalMarkAsSent ==
    pc = "crashed" =>
        \A p \in DOMAIN sent :
            sent[p].ok => sent[p].title \notin Range(Redetect)

DispatchOrder ==
    InCycle =>
        /\ \A p \in DOMAIN sent :
              /\ sent[p].target = ((p - 1) % NumTargets) + 1
              /\ sent[p].title =
                    all_articles[Len(new_articles) - ((p - 1) \div NumTargets)]
        /\ pc = "send" => Len(sent) = (idx - 1) * NumTargets + (tgt - 1)

DispatchOrderWitness ==
    /\ pc = "next"
    /\ Len(sent) = 2 * NumTargets
    /\ sent[1].title = all_articles[2]
    /\ sent[Len(sent)].title = all_articles[1]

\* C10: a failed delivery changes nothing in what follows it: the next
\* target of the same item is tried next; after the last target the next
\* new item is taken up; after the last item the loop over the articles
\* ends normally, which leads to the save and the next category.
FailureIsolation ==
    InCycle =>
        \A p \in DOMAIN sent :
            ~sent[p].ok =>
                IF sent[p].target < NumTargets
                THEN IF p < Len(sent)
                     THEN /\ sent[p + 1].title = sent[p].title
                          /\ sent[p + 1].target = sent[p].target + 1
                     ELSE /\ pc = "send"
                          /\ tgt = sent[p].target + 1
                          /\ new_articles[idx] = sent[p].title
                ELSE IF ItemNo(sent[p].title) < Len(new_articles)
                THEN IF p < Len(sent)
                     THEN /\ sent[p + 1].title =
                                new_articles[ItemNo(sent[p].title) + 1]
                          /\ sent[p + 1].target = 1
                     ELSE /\ pc \in {"item", "send", "crashed"}
                          /\ idx = ItemNo(sent[p].title) + 1
                          /\ pc = "send" => tgt = 1
                ELSE /\ p = Len(sent)
                     /\ pc \in {"after_loop", "next"}

FailureIsolationWitness ==
    /\ pc = "next"
    /\ cat < Len(MONITORED_CATEGORIES)
    /\ Len(sent) = 2 * NumTargets
    /\ ~sent[1].ok
    /\ sent[2].title = sent[1].title
    /\ sent[NumTargets + 1].title # sent[1].title

\* C11: when the category's member request fails (RequestException) or
\* lists no member, the category's cycle is skipped: no item is detected,
\* nothing is sent, nothing is saved and the state file is as it was, and
\* the category loop is at its end of body, from where it takes up the next
\* category.  (One request is made per cycle; there is no retry.)
FetchFailureSkipsCycle ==
    (InCycle /\ (request_failed \/ all_articles = <<>>)) =>
        /\ pc = "next"
        /\ new_articles = <<>>
        /\ sent = <<>>
        /\ save_result = "none"
        /\ file[state_file_path(cat)] = file_before

FetchFailureSkipsCycleWitness ==
    /\ pc = "next"
    /\ request_failed
    /\ cat = 2
    /\ file[state_file_path(1)] \in Titles
    /\ file[state_file_path(2)] = file_before

\* C12: when the state file is absent or cannot be interpreted (json.load
\* rejects it, it is not a JSON object, or it has no title), the loader
\* yields the category's configured initial_article; it never yields None.
\* (Stated for SpecLoad; a file without a title loads as None.)
InvalidStateFileYieldsInitialArticle ==
    pc = "loaded" =>
        /\ last_checked # None
        /\ file[state_file_path(cat)]
                  \in {Absent, Corrupt, WrongShape, NoTitle} =>
              last_checked = MONITORED_CATEGORIES[cat].initial_article

\* C13: an error of one item is not fatal: when the revision details of a
\* Developing item come back empty (the article is absent), the item is
\* rendered with N/A fields and the process goes on; it does not exit in
\* the middle of the cycle.  (The code raises KeyError and exits.)
ItemErrorNotFatal ==
    ~(/\ pc = "crashed"
      /\ MONITORED_CATEGORIES[cat].message_type = "developing")

\* C14: the state file is written atomically: whatever happens during a
\* save, the file holds the complete previous record or the complete new
\* one, never a truncated, empty or unparseable one.  (The code opens the
\* file for writing, which truncates it, and writes in place.)
AtomicStatePersistence ==
    \A c \in Cats : file[state_file_path(c)] # Corrupt

\* C15: every detected item is notified, for every configured category
\* (published, developing, review): at the end of a category's cycle every
\* item that detection returned has been sent to the targets, and the state
\* was then saved.  (Review items are skipped as of unknown message type.)
EveryDetectedItemNotified ==
    pc = "next" =>
        /\ \A i \in DOMAIN new_articles :
              \E p \in DOMAIN sent : sent[p].title = new_articles[i]
        /\ new_articles # <<>> => save_result # "none"

\* C16: the persisted record of notified titles keeps every notified title
\* that is still in the latest snapshot (and the most recent K = 200 of
\* those that are not): after a successful save, every title delivered in
\* the cycle, all of them members of the snapshot, is in the state file.
\* (The state file holds one title; there is no set and no K.)
NotifiedTitlesStillPresentRetained ==
    (pc = "next" /\ save_result = "ok") =>
        \A p \in DOMAIN sent :
            (sent[p].ok /\ sent[p].title \in Range(all_articles)) =>
                sent[p].title \in saved_titles(file[state_file_path(cat)])

\* C17: get_article_summary makes its requests in the order wikitext, full
\* HTML, section 0, each at most once.  The wikitext summary is returned if
\* and only if it has more than 10 characters after trimming; otherwise
\* (no wikitext, empty or short summary) the full HTML is requested.
\* Section 0 is requested only when the full HTML gave no sentence longer
\* than 15 characters; a result of the full HTML is the first two such
\* sentences.  No request follows a return.  (Stated for SpecSummary.)
SummaryTierGating ==
    /\ fetched = Slice(<<"wikitext", "html", "section0">>, Len(fetched))
    /\ pc = "method1" => fetched = <<>>
    /\ pc = "method2" =>
          /\ fetched = <<"wikitext">>
          /\ Len(Strip(summary)) <= SummaryMinChars
    /\ (pc = "returned" /\ Len(fetched) = 1) =>
          Len(Strip(summary)) > SummaryMinChars
    /\ pc = "method3" =>
          /\ Len(fetched) = 2
          /\ Len(Strip(summary)) <= SummaryMinChars
          /\ \A i \in DOMAIN sentences :
                Len(Strip(sentences[i])) <= SentenceMinChars
    /\ (pc = "returned" /\ Len(fetched) = 2) =>
          /\ \E i \in DOMAIN sentences :
                Len(Strip(sentences[i])) > SentenceMinChars
          /\ summary = Join(<<" ">>, meaningful_sentences(sentences))
    /\ pc = "raised" => Len(fetched) = 3

SummaryTierGatingWitness ==
    /\ pc = "method3"
    /\ summary = Padded(SummaryMinChars)
    /\ Len(sentences) = 3

\* C18: split_into_sentences("Dr. Smith met Mr. Jones. It was good.")
\* returns exactly the two sentences "Dr. Smith met Mr. Jones." (the first
\* 24 characters) and "It was good." (the text after the blank that
\* follows them).  (Stated for SpecSplit; the second sentence comes back
\* with the blank in front.)
SplitDrSmithExample ==
    (pc = "split_done" /\ text = DrSmithText) =>
        sentences = <<Prefix(DrSmithText, 24), Drop(DrSmithText, 25)>>

MarkupFree(s) ==
    LET \* the characters the markup that the cleaning steps look for begins with:
        \* comments and tags, templates and tables, links, emphasis, entities and
        \* headers
        MarkupChars == {"<", "{", "[", "'", "&", "="}
    IN  \A i \in DOMAIN s : s[i] \notin MarkupChars

RECURSIVE CollapseRuns(_)
\* s, which does not begin with white space, with each run of white space
\* replaced by one blank and a run at the end dropped
CollapseRuns(s) ==
    IF s = <<>> THEN <<>>
    ELSE IF IsSpace(s[1])
         THEN IF LStrip(s) = <<>> THEN <<>>
              ELSE <<" ">> \o CollapseRuns(LStrip(s))
         ELSE <<s[1]>> \o CollapseRuns(Tail(s))

\* s with its line breaks and runs of white space collapsed to single blanks
\* and its ends trimmed
WhitespaceCollapsed(s) == CollapseRuns(LStrip(s))

\* C19 as stated: the eleven cleaning steps return a text without markup
\* unchanged except that line breaks and runs of white space are collapsed
\* to single blanks and the ends are trimmed.  (The quote marks that
\* clean_formatting removes are no markup, and they are removed.)
PlainTextOnlyWhitespaceCollapsed ==
    (pc = "cleanup_done" /\ MarkupFree(text)) =>
        clean_text = WhitespaceCollapsed(text)

\* C19, amended: the eleven cleaning steps return a text without markup and
\* without any of the quote marks of clean_formatting unchanged except that
\* line breaks and runs of white space are collapsed to single blanks and
\* the ends are trimmed; no other character is removed or added.
PlainTextWithoutQuoteMarksOnlyWhitespaceCollapsed ==
    (pc = "cleanup_done" /\ MarkupFree(text)
     /\ \A i \in DOMAIN text : text[i] \notin QUOTE_MARKS.set) =>
        clean_text = WhitespaceCollapsed(text)

\* a plain text with a leading blank and a line break has been cleaned
PlainTextCleanedWitness ==
    /\ pc = "cleanup_done"
    /\ text = <<" ", "a", "\n", "a">>
    /\ clean_text = <<"a", " ", "a">>

\* C20: remove_templates halts on every input: its loop ends when no
\* template markers remain or a pass makes no change.  Stated of a state of
\* the loop: never does the loop's condition hold of a text that the pass
\* leaves as it is, for from such a state every further pass is the same
\* and the loop never ends.  (The loop has no such exit and the state is
\* reached.)
TemplateRemovalHalts ==
    ~(/\ pc = "templates"
      /\ re_search(TEMPLATE_MARKERS, clean_text)
      /\ strip_templates_sub(clean_text) = clean_text)

\* C21: handle_links halts on every input, an unclosed '[[' and the empty
\* link '[[]]' included, and no '[[' remains in what it returns.  Stated of
\* the states of the loop and of the return: never does the loop's
\* condition hold of a text that the pass leaves as it is (from such a state
\* every further pass is the same and the loop never ends), and the text
\* returned has no '[['.  (The loop has no exit for a pass that changes
\* nothing, and such a state is reached.)
LinkResolutionHaltsAndCompletes ==
    /\ ~(/\ pc = "links"
         /\ re_search(Lit(<<"[", "[">>), clean_text)
         /\ re_sub(PIPED_LINK, <<Ref(1)>>, clean_text) = clean_text)
    /\ pc = "links_done" => ~re_search(Lit(<<"[", "[">>), clean_text)

\* C22: when the rendered first section has no paragraph whose trimmed text
\* is longer than 20 characters (no <p> at all included), WikinewsBot's
\* get_article_summary does not raise and returns the first two sentences
\* of all the visible text of the section, the empty string if there is
\* none, and PublishedFormatter's returns the same for the same section.
\* (Stated for SpecSection; WikinewsBot raises or returns the sentences of
\* the last short paragraph.)
Tier3FallbackToAllVisibleText ==
    first_paragraph(paragraph_texts(text)) = 0 =>
        /\ pc # "bot_raised"
        /\ pc \in {"bot_returned", "published_returned"} =>
              summary = first_two_sentences(all_visible_text(text))
        /\ pc = "bot_returned" => summary = published_section_summary(text)

\* C23: for every text, split_into_sentences returns no empty fragment and
\* no fragment shorter than 4 characters.  (Stated for SpecSplit; the
\* function has no such filter, and neither has cleanup_content, which
\* keeps every sentence of 1 to 499 characters.)
SplitterDiscardsNoise ==
    pc = "split_done" =>
        \A i \in DOMAIN sentences : Len(sentences[i]) >= 4

\* C24: the cycle of a category reads and writes only that category's own
\* state file.  No step of the cycle of category cat, whether it detects,
\* dispatches, saves or fails, changes the state file configured for
\* another category, and what the detection of a category returns is
\* computed from the members fetched for it and from the title loaded from
\* its own state file as that stood when its cycle began.
CategoryIsolation ==
    /\ [][\A c \in Cats \ {cat} :
             file'[MONITORED_CATEGORIES[c].state_file]
                 = file[MONITORED_CATEGORIES[c].state_file]]_vars
    /\ [](InCycle =>
            /\ last_checked = load_last_checked_article_title(
                                  file_before, MONITORED_CATEGORIES[cat])
            /\ ~request_failed =>
                  new_articles
                      = check_for_new_articles(all_articles, last_checked))

\* the second category's cycle has saved a title while the first category's
\* state file holds another
CategoryIsolationWitness ==
    /\ pc = "next"
    /\ cat = 2
    /\ save_result = "ok"
    /\ file[MONITORED_CATEGORIES[2].state_file] \in Titles
    /\ file[MONITORED_CATEGORIES[1].state_file] \in Titles
    /\ file[MONITORED_CATEGORIES[1].state_file]
           # file[MONITORED_CATEGORIES[2].state_file]

====
